---------------------------- MODULE Spec2Model ----------------------------
(***************************************************************************)
(* Model of the terrain generator (landscape.cpp) and of the free-flying   *)
(* camera (camera.hpp).                                                    *)
(*                                                                         *)
(* Number representation.  The program computes in IEEE floats.  Here a    *)
(* real number r is the integer round(r * Micro): angles are micro-radians,*)
(* lengths are micro-units, times are micro-seconds.  Pointer coordinates  *)
(* are whole pixels.  The operators below compute products, quotients,     *)
(* square roots, sines and cosines on that grid, never exceeding 32 bits.  *)
(* The grid is fine enough to tell the pitch limit 1.5708 from pi/2        *)
(* (1.5707963...), on which the orientation properties turn.               *)
(*                                                                         *)
(* Intermediate values are passed as operator parameters rather than bound *)
(* by LET, so that each is computed once.                                  *)
(***************************************************************************)
EXTENDS Integers, Sequences, FiniteSets, TLC

\* One unit on the fixed-point grid (1.0f).
Micro == 1000 * 1000

Abs(a) == IF a < 0 THEN -a ELSE a

Sign(a) == IF a < 0 THEN -1 ELSE 1

Max2(a, b) == IF a >= b THEN a ELSE b

\* a*b/Micro from the base-1000 limbs of a and b, rounded to the grid; no
\* intermediate exceeds 32 bits.
MulLimbs(a2, a1, a0, b2, b1, b0) ==
    a2 * b2 * 1000000
    + (a2 * b1 + a1 * b2) * 1000
    + (a2 * b0 + a1 * b1 + a0 * b2)
    + ((a1 * b0 + a0 * b1) * 1000 + a0 * b0 + 500000) \div 1000000

\* Product of two non-negative grid numbers.
MulPos(a, b) ==
    MulLimbs(a \div 1000000, (a \div 1000) % 1000, a % 1000,
             b \div 1000000, (b \div 1000) % 1000, b % 1000)

\* float * float
MulQ(a, b) == Sign(a) * Sign(b) * MulPos(Abs(a), Abs(b))

\* Long division: the n next decimal digits of r/b appended to q (0 <= r < b).
RECURSIVE DivDigits(_, _, _, _)
DivDigits(q, r, b, n) ==
    IF n = 0 THEN (IF 2 * r >= b THEN q + 1 ELSE q)
    ELSE DivDigits(q * 10 + (r * 10) \div b, (r * 10) % b, b, n - 1)

\* float / float : a*Micro/b rounded to the grid (b # 0).
DivQ(a, b) ==
    Sign(a) * Sign(b) * DivDigits(Abs(a) \div Abs(b), Abs(a) % Abs(b), Abs(b), 6)

\* floor(sqrt(n)) by bisection, lo*lo <= n < hi*hi.
RECURSIVE SqrtBetween(_, _, _)
SqrtHalf(n, lo, hi, mid) ==
    IF mid * mid <= n THEN SqrtBetween(n, mid, hi) ELSE SqrtBetween(n, lo, mid)

SqrtBetween(n, lo, hi) ==
    IF hi - lo <= 1 THEN lo ELSE SqrtHalf(n, lo, hi, (lo + hi) \div 2)

ISqrt(n) == SqrtBetween(n, 0, 46341)

(***************************************************************************)
(* sinf / cosf.  The argument is reduced to [-pi/4, pi/4] and the Taylor   *)
(* polynomial is evaluated there in Horner form.                           *)
(***************************************************************************)
PiMicro == 3141593

HalfPiMicro == 1570796

TwoPiMicro == 6283185

\* sin r = r (1 - r2/6 (1 - r2/20 (1 - r2/42 (1 - r2/72)))), r2 = r*r
SinPoly(r, r2) ==
    MulQ(r, Micro - MulQ(r2 \div 6,
             Micro - MulQ(r2 \div 20,
                Micro - MulQ(r2 \div 42, Micro - r2 \div 72))))

\* cos r = 1 - r2/2 (1 - r2/12 (1 - r2/30 (1 - r2/56)))
CosPoly(r2) ==
    Micro - MulQ(r2 \div 2,
       Micro - MulQ(r2 \div 12,
          Micro - MulQ(r2 \div 30, Micro - r2 \div 56)))

\* sin r, cos r for |r| <= pi/4
SinSmall(r) == SinPoly(r, MulQ(r, r))

CosSmall(r) == CosPoly(MulQ(r, r))

\* sin and cos of q * pi/2 + r
SinQuadrant(q, r) ==
    IF q = 0 THEN SinSmall(r)
    ELSE IF q = 1 THEN CosSmall(r)
    ELSE IF q = 2 THEN -SinSmall(r)
    ELSE -CosSmall(r)

CosQuadrant(q, r) ==
    IF q = 0 THEN CosSmall(r)
    ELSE IF q = 1 THEN -SinSmall(r)
    ELSE IF q = 2 THEN -CosSmall(r)
    ELSE SinSmall(r)

\* The quadrant of an angle y in [0, 2 pi): the nearest multiple of pi/2.
QuadrantOf(y) == (y + HalfPiMicro \div 2) \div HalfPiMicro

SinReduced(y, k) == SinQuadrant(k % 4, y - k * HalfPiMicro)

CosReduced(y, k) == CosQuadrant(k % 4, y - k * HalfPiMicro)

SinTurn(y) == SinReduced(y, QuadrantOf(y))

CosTurn(y) == CosReduced(y, QuadrantOf(y))

sinf(x) == IF x < 0 THEN -SinTurn((-x) % TwoPiMicro) ELSE SinTurn(x % TwoPiMicro)

cosf(x) == CosTurn(Abs(x) % TwoPiMicro)

tanf(x) == DivQ(sinf(x), cosf(x))

(***************************************************************************)
(* simd vectors: a float3 is a 3-tuple of grid numbers.                    *)
(***************************************************************************)
VAdd(u, v) == <<u[1] + v[1], u[2] + v[2], u[3] + v[3]>>

VSub(u, v) == <<u[1] - v[1], u[2] - v[2], u[3] - v[3]>>

VScale(u, k) == <<MulQ(u[1], k), MulQ(u[2], k), MulQ(u[3], k)>>

VDiv(u, d) == <<DivQ(u[1], d), DivQ(u[2], d), DivQ(u[3], d)>>

dot(u, v) == MulQ(u[1], v[1]) + MulQ(u[2], v[2]) + MulQ(u[3], v[3])

cross(u, v) ==
    <<MulQ(u[2], v[3]) - MulQ(u[3], v[2]),
      MulQ(u[3], v[1]) - MulQ(u[1], v[3]),
      MulQ(u[1], v[2]) - MulQ(u[2], v[1])>>

MaxAbs(u) == Max2(Abs(u[1]), Max2(Abs(u[2]), Abs(u[3])))

\* Largest component magnitude whose three squares still sum within 32 bits.
SqrtRange == 26 * 1000

\* u with every component divided by the integer k, towards zero.
ShrunkBy(u, k) ==
    <<Sign(u[1]) * (Abs(u[1]) \div k), Sign(u[2]) * (Abs(u[2]) \div k),
      Sign(u[3]) * (Abs(u[3]) \div k)>>

GrownBy(u, k) == <<u[1] * k, u[2] * k, u[3] * k>>

\* The integer length of a vector whose components are within SqrtRange.
RootOfSquares(r) == ISqrt(r[1] * r[1] + r[2] * r[2] + r[3] * r[3])

\* A large vector divided by its length, found on the vector shrunk by k.
UnitOfLarge(u, k) == VDiv(u, RootOfSquares(ShrunkBy(u, k)) * k)

\* A small vector, grown to the range of the square root, divided by its length.
UnitOfGrown(r) == VDiv(r, RootOfSquares(r))

\* u / |u| up to the error of the integer square root; m = MaxAbs(u) > 0.
RoughUnit(u, m) ==
    IF m > SqrtRange
    THEN UnitOfLarge(u, (m + SqrtRange - 1) \div SqrtRange)
    ELSE UnitOfGrown(GrownBy(u, SqrtRange \div m))

\* One Newton step on the reciprocal root: n (3 - n.n) / 2.
Polished(n) == VScale(n, (3 * Micro - dot(n, n)) \div 2)

\* simd::normalize.  The zero vector (NaN in the program) is returned
\* unchanged; no call of the model passes it.
normalize(u) == IF MaxAbs(u) = 0 THEN u ELSE Polished(RoughUnit(u, MaxAbs(u)))

\* simd::length
length(u) == dot(u, normalize(u))

Clamp1(x, lo, hi) == IF x < lo THEN lo ELSE IF x > hi THEN hi ELSE x

\* simd::clamp, component-wise min(max(x, lo), hi)
clamp(u, lo, hi) ==
    <<Clamp1(u[1], lo[1], hi[1]), Clamp1(u[2], lo[2], hi[2]),
      Clamp1(u[3], lo[3], hi[3])>>

(***************************************************************************)
(* 32-bit integer arithmetic of simple_noise.  An int is a pair <<hi, lo>> *)
(* of 16-bit halves (two's complement); sums and products wrap modulo      *)
(* 2^32 as they do on the machine.                                         *)
(***************************************************************************)
Half == 256 * 256

ToU32(n) == <<(n \div Half) % Half, n % Half>>

Add32(a, b) ==
    <<(a[1] + b[1] + (a[2] + b[2]) \div Half) % Half, (a[2] + b[2]) % Half>>

\* Low 16 bits of the product of two 16-bit numbers.
MulLow16(a, b) == ((a % 256) * b + (((a \div 256) * b) % 256) * 256) % Half

\* The 32-bit product of two 16-bit numbers a and b, from p1 = (a / 256) * b
\* and t = the low byte of p1 shifted, plus (a % 256) * b.
Mul16Sum(p1, t) == <<(p1 \div 256 + t \div Half) % Half, t % Half>>

Mul16Parts(p1, p0) == Mul16Sum(p1, (p1 % 256) * 256 + p0)

Mul16(a, b) == Mul16Parts((a \div 256) * b, (a % 256) * b)

Mul32Sum(a, b, ll) ==
    <<(ll[1] + MulLow16(a[1], b[2]) + MulLow16(a[2], b[1])) % Half, ll[2]>>

Mul32(a, b) == Mul32Sum(a, b, Mul16(a[2], b[2]))

\* x << 13
Shl13(a) == <<((a[1] % 8) * 8192 + a[2] \div 8) % Half, (a[2] % 8) * 8192>>

RECURSIVE XorBits(_, _, _)
XorBits(a, b, n) ==
    IF n = 0 THEN 0
    ELSE ((a + b) % 2) + 2 * XorBits(a \div 2, b \div 2, n - 1)

Xor32(a, b) == <<XorBits(a[1], b[1], 16), XorBits(a[2], b[2], 16)>>

(***************************************************************************)
(* Noise engine                                                            *)
(***************************************************************************)
LANDSCAPE_WIDTH == 50

LANDSCAPE_DEPTH == 50

\* 5.0f
TERRAIN_SCALE == 5 * Micro

\* 12.0f
TERRAIN_HEIGHT == 12 * Micro

\* n = (n << 13) ^ n
NoiseMix(n) == Xor32(Shl13(n), n)

\* n * (n * n * 15731 + 789221) + 1376312589
NoiseHash(n) ==
    Add32(Mul32(n, Add32(Mul32(Mul32(n, n), ToU32(15731)), ToU32(789221))),
          ToU32(1376312589))

\* a * 2^10 / 1073741824.0f on the grid, a = (h & 0x7fffffff) / 2^10
NoiseFraction(a) == (a \div 16384) * 15625 + ((a % 16384) * 15625) \div 16384

\* 1.0f - (h & 0x7fffffff) / 1073741824.0f
NoiseFloat(h) == Micro - NoiseFraction(((h[1] % 32768) * Half + h[2]) \div 1024)

\* The hash of a lattice point, in [-1, 1].
simple_noise(x, z) == NoiseFloat(NoiseHash(NoiseMix(ToU32(x + z * 57))))

\* a * (1 - f) + b * f
Blend(a, b, f) == MulQ(a, Micro - f) + MulQ(b, f)

cosine_interpolate(a, b, blend) ==
    Blend(a, b, (Micro - cosf(MulQ(blend, PiMicro))) \div 2)

\* smoothed_noise once the lattice cell and the offsets in it are known.
SmoothedAt(int_x, int_z, frac_x, frac_z) ==
    cosine_interpolate(
        cosine_interpolate(simple_noise(int_x, int_z),
                           simple_noise(int_x + 1, int_z), frac_x),
        cosine_interpolate(simple_noise(int_x, int_z + 1),
                           simple_noise(int_x + 1, int_z + 1), frac_x),
        frac_z)

SmoothedIn(x, z, int_x, int_z) ==
    SmoothedAt(int_x, int_z, x - int_x * Micro, z - int_z * Micro)

\* floorf is the floor division of the grid number by Micro.
smoothed_noise(x, z) == SmoothedIn(x, z, x \div Micro, z \div Micro)

\* 0.45f
Persistence == 450 * 1000

Octaves == 5

\* The loop of fractal_noise from octave i on.
RECURSIVE FractalFrom(_, _, _, _, _)
FractalFrom(x, z, i, frequency, amplitude) ==
    IF i >= Octaves THEN 0
    ELSE MulQ(smoothed_noise(MulQ(x, frequency), MulQ(z, frequency)), amplitude)
         + FractalFrom(x, z, i + 1, MulQ(frequency, 2 * Micro),
                       MulQ(amplitude, Persistence))

fractal_noise(x, z) == FractalFrom(x, z, 0, Micro, Micro)

(***************************************************************************)
(* Matrices: a float4x4 is a 4-tuple of columns, each a 4-tuple.           *)
(***************************************************************************)
ZeroMatrix == <<<<0, 0, 0, 0>>, <<0, 0, 0, 0>>, <<0, 0, 0, 0>>, <<0, 0, 0, 0>>>>

matrix_translation(tx, ty, tz) ==
    <<<<Micro, 0, 0, 0>>, <<0, Micro, 0, 0>>, <<0, 0, Micro, 0>>,
      <<tx, ty, tz, Micro>>>>

PerspectiveColumns(xs, ys, zs, nearZ) ==
    <<<<xs, 0, 0, 0>>, <<0, ys, 0, 0>>, <<0, 0, zs, -Micro>>,
      <<0, 0, MulQ(zs, nearZ), 0>>>>

PerspectiveScaled(ys, aspect, zs, nearZ) ==
    PerspectiveColumns(DivQ(ys, aspect), ys, zs, nearZ)

matrix_perspective_right_hand(fovyRadians, aspect, nearZ, farZ) ==
    PerspectiveScaled(DivQ(Micro, tanf(fovyRadians \div 2)), aspect,
                      DivQ(farZ, nearZ - farZ), nearZ)

LookAtColumns(f, s, u, eye) ==
    <<<<s[1], u[1], -f[1], 0>>, <<s[2], u[2], -f[2], 0>>,
      <<s[3], u[3], -f[3], 0>>,
      <<-dot(s, eye), -dot(u, eye), dot(f, eye), Micro>>>>

LookAtSide(f, s, eye) == LookAtColumns(f, s, cross(s, f), eye)

LookAtForward(f, eye, up) == LookAtSide(f, normalize(cross(f, up)), eye)

matrix_look_at_right_hand(eye, center, up) ==
    LookAtForward(normalize(VSub(center, eye)), eye, up)

(***************************************************************************)
(* Camera                                                                  *)
(***************************************************************************)
\* Camera's default member initialisers: moveSpeed = 8.0f, lookSpeed = 0.005f
DefaultMoveSpeed == 8 * Micro

DefaultLookSpeed == 5000

\* M_PI / 3.0f
Fovy == 1047198

\* make_camera(width, height).  The aspect ratio (float)width / (float)height
\* is the quotient of the two pixel counts; nearZ = 0.1f, farZ = 100.0f.
make_camera(width, height) ==
    [position |-> <<0, 0, 3 * Micro>>,
     yaw |-> 0,
     pitch |-> 0,
     moveSpeed |-> DefaultMoveSpeed,
     lookSpeed |-> DefaultLookSpeed,
     viewMatrix |-> ZeroMatrix,
     projectionMatrix |->
        matrix_perspective_right_hand(Fovy, DivQ(width, height),
                                      Micro \div 10, 100 * Micro)]

\* Fault: the first-call block is missing, so the first call measures its
\* delta from the zero-initialised static.
AfterFirstMouseUnguarded(first, last, mouse) == last

\* The value of a static last-pointer coordinate after the first-call block:
\* if (firstMouse) { lastMouseX = mouseX; lastMouseY = mouseY; ... }
AfterFirstMouse(first, last, mouse) == IF first THEN mouse ELSE last

\* float(mouseX - lastMouseX)
PointerDelta(mouse, last) == mouse - last

\* Fault: the yaw turns against the pointer (-= for +=).
TurnYawReversed(yaw, deltaX, lookSpeed) == yaw - deltaX * lookSpeed

\* cam.yaw += deltaX * cam.lookSpeed
TurnYaw(yaw, deltaX, lookSpeed) == yaw + deltaX * lookSpeed

\* cam.pitch -= deltaY * cam.lookSpeed
TurnPitch(pitch, deltaY, lookSpeed) == pitch - deltaY * lookSpeed

\* 1.5708f
PitchLimit == 1570800

\* if (cam.pitch > 1.5708f) cam.pitch = 1.5708f;
ClampPitchHigh(pitch) == IF pitch > PitchLimit THEN PitchLimit ELSE pitch

\* Fault: the lower limit is not enforced.
ClampPitchLowMissing(pitch) == pitch

\* if (cam.pitch < -1.5708f) cam.pitch = -1.5708f;
ClampPitchLow(pitch) == IF pitch < -PitchLimit THEN -PitchLimit ELSE pitch

ClampPitch(pitch) == ClampPitchLow(ClampPitchHigh(pitch))

\* Fault: the z component lost its sign, so a level camera faces +Z.
ForwardWithPlusZ(yaw, pitch, cos_pitch) ==
    normalize(<<MulQ(sinf(yaw), cos_pitch), sinf(pitch),
                MulQ(cosf(yaw), cos_pitch)>>)

\* normalize({sinf(yaw) * cos_pitch, sinf(pitch), -cosf(yaw) * cos_pitch})
ForwardWith(yaw, pitch, cos_pitch) ==
    normalize(<<MulQ(sinf(yaw), cos_pitch), sinf(pitch),
                MulQ(-cosf(yaw), cos_pitch)>>)

ForwardOf(yaw, pitch) == ForwardWith(yaw, pitch, cosf(pitch))

WorldUp == <<0, Micro, 0>>

RightOf(forward) == normalize(cross(forward, WorldUp))

\* The keys update_camera reads.
Keys == {"W", "S", "A", "D", " ", "C", "X"}

\* if (keys['W']) moveDir += forward;  and so on, in the order of the code.
MoveW(keys, forward) == IF "W" \in keys THEN forward ELSE <<0, 0, 0>>

MoveS(keys, d, forward) == IF "S" \in keys THEN VSub(d, forward) ELSE d

MoveA(keys, d, right) == IF "A" \in keys THEN VSub(d, right) ELSE d

MoveD(keys, d, right) == IF "D" \in keys THEN VAdd(d, right) ELSE d

MoveUp(keys, d) == IF " " \in keys THEN <<d[1], d[2] + Micro, d[3]>> ELSE d

MoveDown(keys, d) ==
    IF "C" \in keys \/ "X" \in keys THEN <<d[1], d[2] - Micro, d[3]>> ELSE d

MoveDirOf(keys, forward, right) ==
    MoveDown(keys,
      MoveUp(keys,
        MoveD(keys,
          MoveA(keys, MoveS(keys, MoveW(keys, forward), forward), right),
          right)))

\* 0.01f
MoveEpsilon == 10 * 1000

\* if (length(moveDir) > 0.01f) cam.position += normalize(moveDir) * moveSpeed * dt
Advance(position, moveDir, moveSpeed, dt) ==
    IF length(moveDir) > MoveEpsilon
    THEN VAdd(position, VScale(VScale(normalize(moveDir), moveSpeed), dt))
    ELSE position

minBounds == <<-20 * Micro, 0, -20 * Micro>>

maxBounds == <<20 * Micro, 20 * Micro, 20 * Micro>>

\* Fault: only x and z are clamped, the height is left free.
ClampPositionFlat(position) ==
    <<Clamp1(position[1], minBounds[1], maxBounds[1]), position[2],
      Clamp1(position[3], minBounds[3], maxBounds[3])>>

\* cam.position = simd::clamp(cam.position, minBounds, maxBounds)
ClampPosition(position) == clamp(position, minBounds, maxBounds)

\* Fault: firstMouse is never cleared, so every call takes the first-call block.
UpdateViewFirstForever(cam, mouseX, mouseY, deltaX, deltaY, yaw, pitch, forward, right, moved, position) ==
    [cam |-> [cam EXCEPT
                !.yaw = yaw,
                !.pitch = pitch,
                !.position = position,
                !.viewMatrix = matrix_look_at_right_hand(
                                  position, VAdd(position, forward), WorldUp)],
     firstMouse |-> TRUE,
     lastMouseX |-> mouseX,
     lastMouseY |-> mouseY,
     deltaX |-> deltaX,
     deltaY |-> deltaY,
     forward |-> forward,
     right |-> right,
     moved |-> moved]

\* The end of update_camera: the clamped position and the view matrix are
\* stored; the result holds the camera, the statics and the call's locals.
UpdateView(cam, mouseX, mouseY, deltaX, deltaY, yaw, pitch, forward, right, moved, position) ==
    [cam |-> [cam EXCEPT
                !.yaw = yaw,
                !.pitch = pitch,
                !.position = position,
                !.viewMatrix = matrix_look_at_right_hand(
                                  position, VAdd(position, forward), WorldUp)],
     firstMouse |-> FALSE,
     lastMouseX |-> mouseX,
     lastMouseY |-> mouseY,
     deltaX |-> deltaX,
     deltaY |-> deltaY,
     forward |-> forward,
     right |-> right,
     moved |-> moved]

UpdateClamp(cam, mouseX, mouseY, deltaX, deltaY, yaw, pitch, forward, right, moved) ==
    UpdateView(cam, mouseX, mouseY, deltaX, deltaY, yaw, pitch, forward, right,
               moved, ClampPosition(moved))

\* Fault: the step length is folded into the camera (cam.moveSpeed *= dt).
UpdateMoveScalingSpeed(cam, dt, keys, mouseX, mouseY, deltaX, deltaY, yaw, pitch, forward, right) ==
    UpdateClamp([cam EXCEPT !.moveSpeed = MulQ(@, dt)],
                mouseX, mouseY, deltaX, deltaY, yaw, pitch, forward, right,
                Advance(cam.position, MoveDirOf(keys, forward, right),
                        MulQ(cam.moveSpeed, dt), Micro))

\* The move update, from the forward and right vectors.
UpdateMove(cam, dt, keys, mouseX, mouseY, deltaX, deltaY, yaw, pitch, forward, right) ==
    UpdateClamp(cam, mouseX, mouseY, deltaX, deltaY, yaw, pitch, forward, right,
                Advance(cam.position, MoveDirOf(keys, forward, right),
                        cam.moveSpeed, dt))

UpdateRight(cam, dt, keys, mouseX, mouseY, deltaX, deltaY, yaw, pitch, forward) ==
    UpdateMove(cam, dt, keys, mouseX, mouseY, deltaX, deltaY, yaw, pitch,
               forward, RightOf(forward))

UpdateForward(cam, dt, keys, mouseX, mouseY, deltaX, deltaY, yaw, pitch) ==
    UpdateRight(cam, dt, keys, mouseX, mouseY, deltaX, deltaY, yaw, pitch,
                ForwardOf(yaw, pitch))

\* The look update, from the pointer deltas.
UpdateLook(cam, dt, keys, mouseX, mouseY, deltaX, deltaY) ==
    UpdateForward(cam, dt, keys, mouseX, mouseY, deltaX, deltaY,
                  TurnYaw(cam.yaw, deltaX, cam.lookSpeed),
                  ClampPitch(TurnPitch(cam.pitch, deltaY, cam.lookSpeed)))

\* update_camera: the camera and the three statics after the call, and the
\* locals of the call.
update_camera(cam, dt, keys, mouseX, mouseY, firstMouse, lastMouseX, lastMouseY) ==
    UpdateLook(cam, dt, keys, mouseX, mouseY,
               PointerDelta(mouseX, AfterFirstMouse(firstMouse, lastMouseX, mouseX)),
               PointerDelta(mouseY, AfterFirstMouse(firstMouse, lastMouseY, mouseY)))

(***************************************************************************)
(* Terrain mesh builder                                                    *)
(***************************************************************************)
\* The noise coordinate of grid cell i of n: ((float)i / (float)n) * TERRAIN_SCALE
GridNoiseCoord(i, n) == MulQ(DivQ(i * Micro, n * Micro), TERRAIN_SCALE)

\* The height of grid cell (x, z).
GridHeight(x, z, width, depth) ==
    MulQ(fractal_noise(GridNoiseCoord(x, width), GridNoiseCoord(z, depth)),
         TERRAIN_HEIGHT)

\* The vertex pushed for grid cell (x, z), with its placeholder normal.
GridVertex(x, z, width, depth) ==
    [position |-> <<x * Micro - (width * Micro) \div 2,
                    GridHeight(x, z, width, depth),
                    z * Micro - (depth * Micro) \div 2>>,
     normal |-> <<0, Micro, 0>>]

\* The height stored for grid cell (x, z); vertex z * width + x of the code is
\* element z * width + x + 1 of the sequence.
HeightAt(vs, x, z, width) == vs[z * width + x + 1].position[2]

\* The normal computed for grid cell (x, z) from its neighbours' heights.
GridNormal(vs, x, z, width, depth) ==
    normalize(<<HeightAt(vs, IF x > 0 THEN x - 1 ELSE x, z, width)
                  - HeightAt(vs, IF x < width - 1 THEN x + 1 ELSE x, z, width),
                2 * Micro,
                HeightAt(vs, x, IF z > 0 THEN z - 1 ELSE z, width)
                  - HeightAt(vs, x, IF z < depth - 1 THEN z + 1 ELSE z, width)>>)

\* The two triangles of a quad with corners i0, i1, i2, i3.
QuadTriangles(i0, i1, i2, i3) == <<i0, i2, i1, i1, i2, i3>>

\* Fault: rows are taken to be width + 1 vertices long.
QuadIndicesWideRows(x, z, width) ==
    QuadTriangles(z * (width + 1) + x, z * (width + 1) + x + 1,
                  (z + 1) * (width + 1) + x, (z + 1) * (width + 1) + x + 1)

\* The six indices pushed for the quad whose low corner is (x, z).
QuadIndices(x, z, width) ==
    QuadTriangles(z * width + x, z * width + x + 1,
                  (z + 1) * width + x, (z + 1) * width + x + 1)

\* Fault: the half-extent is not added back to the world coordinate.
WorldNoiseCoordUncentred(w, n) == MulQ(DivQ(w, n * Micro), TERRAIN_SCALE)

\* The noise coordinate get_terrain_height derives from a world coordinate:
\* (w + n / 2.0f) / (float)n * TERRAIN_SCALE
WorldNoiseCoord(w, n) == MulQ(DivQ(w + (n * Micro) \div 2, n * Micro), TERRAIN_SCALE)

get_terrain_height(x, z) ==
    MulQ(fractal_noise(WorldNoiseCoord(x, LANDSCAPE_WIDTH),
                       WorldNoiseCoord(z, LANDSCAPE_DEPTH)),
         TERRAIN_HEIGHT)

\* Largest width and depth passed to create_landscape in the runs of SpecMesh.
MaxDim == 4

\* The terrain: the point create_landscape has reached, its arguments and loop
\* counters, the GameObject it builds, the latest get_terrain_height call.
VARIABLES lpc, lwidth, ldepth, lx, lz, landscape, query

\* The cameras: their storage, which were made, each as make_camera returned
\* it, the statics of update_camera, the latest call, the history of calls.
VARIABLES cams, created, made, firstMouse, lastMouseX, lastMouseY, call, hist

meshVars == <<lpc, lwidth, ldepth, lx, lz, landscape, query>>

camVars == <<cams, created, made, firstMouse, lastMouseX, lastMouseY, call, hist>>

vars == <<meshVars, camVars>>

\* A GameObject with empty buffers.
EmptyObject ==
    [vertices |-> <<>>, indices |-> <<>>, modelMatrix |-> ZeroMatrix,
     color |-> <<0, 0, 0>>]

NoQuery == [x |-> 0, z |-> 0, height |-> 0, asked |-> FALSE]

MeshInit ==
    /\ lpc = "idle"
    /\ lwidth = 0
    /\ ldepth = 0
    /\ lx = 0
    /\ lz = 0
    /\ landscape = EmptyObject
    /\ query = NoQuery

\* create_landscape(width, depth) is called: the local GameObject is empty.
CallCreateLandscape(width, depth) ==
    /\ lpc \in {"idle", "done"}
    /\ lpc' = "vertices"
    /\ lwidth' = width
    /\ ldepth' = depth
    /\ lx' = 0
    /\ lz' = 0
    /\ landscape' = EmptyObject
    /\ query' = NoQuery
    /\ UNCHANGED camVars

\* One evaluation of the loop conditions of the vertex pass, and the body.
VertexLoop ==
    /\ lpc = "vertices"
    /\ IF lz < ldepth
       THEN IF lx < lwidth
            THEN /\ landscape' = [landscape EXCEPT !.vertices =
                                    Append(@, GridVertex(lx, lz, lwidth, ldepth))]
                 /\ lx' = lx + 1
                 /\ UNCHANGED <<lz, lpc>>
            ELSE /\ lz' = lz + 1
                 /\ lx' = 0
                 /\ UNCHANGED <<landscape, lpc>>
       ELSE /\ lpc' = "normals"
            /\ lx' = 0
            /\ lz' = 0
            /\ UNCHANGED landscape
    /\ UNCHANGED <<lwidth, ldepth, query>>
    /\ UNCHANGED camVars

\* The normal pass.
NormalLoop ==
    /\ lpc = "normals"
    /\ IF lz < ldepth
       THEN IF lx < lwidth
            THEN /\ landscape' = [landscape EXCEPT
                                    !.vertices[lz * lwidth + lx + 1].normal =
                                    GridNormal(landscape.vertices, lx, lz, lwidth, ldepth)]
                 /\ lx' = lx + 1
                 /\ UNCHANGED <<lz, lpc>>
            ELSE /\ lz' = lz + 1
                 /\ lx' = 0
                 /\ UNCHANGED <<landscape, lpc>>
       ELSE /\ lpc' = "indices"
            /\ lx' = 0
            /\ lz' = 0
            /\ UNCHANGED landscape
    /\ UNCHANGED <<lwidth, ldepth, query>>
    /\ UNCHANGED camVars

\* The index pass, then the model matrix, the colour and the return.
IndexLoop ==
    /\ lpc = "indices"
    /\ IF lz < ldepth - 1
       THEN IF lx < lwidth - 1
            THEN /\ landscape' = [landscape EXCEPT !.indices =
                                    @ \o QuadIndices(lx, lz, lwidth)]
                 /\ lx' = lx + 1
                 /\ UNCHANGED <<lz, lpc>>
            ELSE /\ lz' = lz + 1
                 /\ lx' = 0
                 /\ UNCHANGED <<landscape, lpc>>
       ELSE /\ lpc' = "done"
            /\ landscape' = [landscape EXCEPT
                               !.modelMatrix = matrix_translation(0, 0, 0),
                               !.color = <<300000, 600000, 200000>>]
            /\ UNCHANGED <<lx, lz>>
    /\ UNCHANGED <<lwidth, ldepth, query>>
    /\ UNCHANGED camVars

\* World coordinates asked of get_terrain_height: those of the tests, and the
\* (x, z) of every 17th vertex of the landscape that was built (17 and the
\* reference width share no factor, so these run through all columns and rows).
QueryPoints ==
    {<<0, 0>>, <<10 * Micro, 10 * Micro>>, <<-20 * Micro, 5 * Micro>>}
    \cup {<<landscape.vertices[i].position[1], landscape.vertices[i].position[3]>> :
            i \in {j \in 1..Len(landscape.vertices) : j % 17 = 1}}

\* get_terrain_height(x, z) is called (the program is single-threaded: never
\* while create_landscape runs).  The model records one call per landscape.
CallGetTerrainHeight ==
    /\ lpc \in {"idle", "done"}
    /\ ~query.asked
    /\ \E p \in QueryPoints :
         query' = [x |-> p[1], z |-> p[2], height |-> get_terrain_height(p[1], p[2]),
                   asked |-> TRUE]
    /\ UNCHANGED <<lpc, lwidth, ldepth, lx, lz, landscape>>
    /\ UNCHANGED camVars

(***************************************************************************)
(* The camera program: cameras made by make_camera, the caller's writes to *)
(* Camera::position (a public field, as the bounds test does), and         *)
(* update_camera with its three function-local statics.                    *)
(***************************************************************************)
Cams == {1, 2}

\* Storage of a camera that was not made yet.
NoCamera ==
    [position |-> <<0, 0, 0>>, yaw |-> 0, pitch |-> 0, moveSpeed |-> 0,
     lookSpeed |-> 0, viewMatrix |-> ZeroMatrix, projectionMatrix |-> ZeroMatrix]

\* The arguments and locals of the latest update_camera call: prevX, prevY and
\* wasFirst are the statics as the call found them, before the camera as the
\* call found it, moved the position before the clamp.  priorX and priorY are
\* the pointer arguments of the call before this one, and fresh tells that
\* this is the first call that updates this camera.
NoCall ==
    [cam |-> 0, dt |-> 0, keys |-> {}, mouseX |-> 0, mouseY |-> 0,
     prevX |-> 0, prevY |-> 0, wasFirst |-> FALSE, deltaX |-> 0, deltaY |-> 0,
     priorX |-> 0, priorY |-> 0, fresh |-> FALSE,
     forward |-> <<0, 0, 0>>, right |-> <<0, 0, 0>>, moved |-> <<0, 0, 0>>,
     before |-> NoCamera]

\* History: the number of update_camera calls, the pointer of the first one,
\* the cameras updated so far, the cameras whose position the caller wrote.
CamInit ==
    /\ cams = [c \in Cams |-> NoCamera]
    /\ created = {}
    /\ made = [c \in Cams |-> NoCamera]
    /\ firstMouse = TRUE
    /\ lastMouseX = 0
    /\ lastMouseY = 0
    /\ call = NoCall
    /\ hist = [n |-> 0, firstX |-> 0, firstY |-> 0, users |-> {}, placed |-> {}]

\* Camera cam = make_camera(width, height);
MakeCamera(c, width, height) ==
    /\ c \notin created
    /\ created' = created \cup {c}
    /\ cams' = [cams EXCEPT ![c] = make_camera(width, height)]
    /\ made' = [made EXCEPT ![c] = make_camera(width, height)]
    /\ UNCHANGED <<firstMouse, lastMouseX, lastMouseY, call, hist>>
    /\ UNCHANGED meshVars

\* cam.position = p;  written by the caller before the camera's first update.
SetPosition(c, p) ==
    /\ c \in created
    /\ c \notin hist.users
    /\ c \notin hist.placed
    /\ cams' = [cams EXCEPT ![c].position = p]
    /\ hist' = [hist EXCEPT !.placed = @ \cup {c}]
    /\ UNCHANGED <<created, made, firstMouse, lastMouseX, lastMouseY, call>>
    /\ UNCHANGED meshVars

\* The effect r of a call on the camera, the statics and the record of the call.
StoreUpdate(c, dt, keys, mouseX, mouseY, r) ==
    /\ cams' = [cams EXCEPT ![c] = r.cam]
    /\ firstMouse' = r.firstMouse
    /\ lastMouseX' = r.lastMouseX
    /\ lastMouseY' = r.lastMouseY
    /\ call' = [cam |-> c, dt |-> dt, keys |-> keys, mouseX |-> mouseX,
                mouseY |-> mouseY, prevX |-> lastMouseX,
                prevY |-> lastMouseY, wasFirst |-> firstMouse,
                deltaX |-> r.deltaX, deltaY |-> r.deltaY,
                priorX |-> call.mouseX, priorY |-> call.mouseY,
                fresh |-> c \notin hist.users,
                forward |-> r.forward, right |-> r.right,
                moved |-> r.moved, before |-> cams[c]]

\* update_camera(cam, dt, keys, mouseX, mouseY);
UpdateCamera(c, dt, keys, mouseX, mouseY) ==
    /\ c \in created
    /\ StoreUpdate(c, dt, keys, mouseX, mouseY,
                   update_camera(cams[c], dt, keys, mouseX, mouseY,
                                 firstMouse, lastMouseX, lastMouseY))
    /\ hist' = [hist EXCEPT
                  !.n = @ + 1,
                  !.firstX = IF hist.n = 0 THEN mouseX ELSE @,
                  !.firstY = IF hist.n = 0 THEN mouseY ELSE @,
                  !.users = @ \cup {c}]
    /\ UNCHANGED <<created, made>>
    /\ UNCHANGED meshVars

\* Inputs of the runs of Spec: viewports; positions written by the caller
\* (19.9 on the +x side; outside the box on every axis); time steps in
\* seconds with the keys held; pointer positions in pixels.
Viewports == {<<800, 600>>, <<600, 600>>}

Placements ==
    {<<19900000, 0, 0>>, <<25 * Micro, -3 * Micro, -30 * Micro>>}

MoveInputs ==
    {<<0, {"W"}>>, <<Micro, {"W"}>>, <<10 * Micro, {"D"}>>, <<Micro, {"S", "A"}>>,
     <<10 * Micro, {" ", "W"}>>, <<Micro, {"C"}>>, <<10 * Micro, {"X", "S"}>>,
     <<Micro, {}>>}

Pointers == {<<0, 0>>, <<100, -10000>>}

\* Inputs of the runs of SpecLook.
LookInputs == {<<0, {}>>, <<16667, {"W"}>>}

LookPointers == {<<0, 0>>, <<100, -10000>>, <<-40, 200>>}

\* Calls of update_camera in a run of Spec, and in a run of SpecLook.
MaxCalls == 2

MaxLookCalls == 3

Init == MeshInit /\ CamInit

CreateSmall == \E width \in 1..MaxDim, depth \in 1..MaxDim : CallCreateLandscape(width, depth)

NextMesh ==
    \/ CreateSmall
    \/ VertexLoop
    \/ NormalLoop
    \/ IndexLoop
    \/ CallGetTerrainHeight

\* Terrain runs at any small width and depth.
SpecMesh == Init /\ [][NextMesh]_vars

CreateReference == CallCreateLandscape(LANDSCAPE_WIDTH, LANDSCAPE_DEPTH)

NextTerrain ==
    \/ CreateReference
    \/ VertexLoop
    \/ NormalLoop
    \/ IndexLoop
    \/ CallGetTerrainHeight

\* Terrain runs at the reference dimensions of get_terrain_height.
SpecTerrain == Init /\ [][NextTerrain]_vars

MakeOne == \E vp \in Viewports : MakeCamera(1, vp[1], vp[2])

PlaceOne == \E p \in Placements : SetPosition(1, p)

MoveOne ==
    /\ hist.n < MaxCalls
    /\ \E i \in MoveInputs, m \in Pointers : UpdateCamera(1, i[1], i[2], m[1], m[2])

Next ==
    \/ MakeOne
    \/ PlaceOne
    \/ MoveOne

\* One camera, placed by the caller and moved with the keys.
Spec == Init /\ [][Next]_vars

MakeAny == \E c \in Cams : MakeCamera(c, 800, 600)

TurnAny ==
    /\ hist.n < MaxLookCalls
    /\ \E c \in Cams, i \in LookInputs, m \in LookPointers :
         UpdateCamera(c, i[1], i[2], m[1], m[2])

NextLook ==
    \/ MakeAny
    \/ TurnAny

\* Two cameras sharing update_camera, turned with the pointer.
SpecLook == Init /\ [][NextLook]_vars

(***************************************************************************)
(* Properties of the terrain                                               *)
(***************************************************************************)
\* C1: when create_landscape(W, D) has returned, for every W > 0 and D > 0,
\* the mesh has exactly W*D vertices and exactly 2*(W-1)*(D-1)*3 indices (a
\* multiple of 3, and none when W = 1 or D = 1), and every index in the index
\* buffer is strictly less than the vertex count W*D.
MeshCounts ==
    lpc = "done" =>
        /\ Len(landscape.vertices) = lwidth * ldepth
        /\ Len(landscape.indices) = 2 * (lwidth - 1) * (ldepth - 1) * 3
        /\ Len(landscape.indices) % 3 = 0
        /\ (lwidth = 1 \/ ldepth = 1) => Len(landscape.indices) = 0
        /\ \A k \in 1..Len(landscape.indices) :
             /\ 0 <= landscape.indices[k]
             /\ landscape.indices[k] < lwidth * ldepth

\* A 3 x 2 mesh was returned: 6 vertices, 2 quads, the largest index used.
MeshBuilt ==
    /\ lpc = "done"
    /\ lwidth = 3
    /\ ldepth = 2
    /\ Len(landscape.vertices) = 6
    /\ Len(landscape.indices) = 12
    /\ landscape.indices[12] = 5

\* The grid cell of vertex number i (from 1) in a mesh of the given width.
CellX(i, width) == (i - 1) % width

CellZ(i, width) == (i - 1) \div width

\* get_terrain_height agrees with vertex v of grid cell (x, z): it passes the
\* noise coordinates of the mesh builder to fractal_noise and returns v's y.
AgreesAt(v, x, z) ==
    /\ WorldNoiseCoord(v.position[1], LANDSCAPE_WIDTH) = MulQ((x * Micro) \div 50, 5 * Micro)
    /\ WorldNoiseCoord(v.position[3], LANDSCAPE_DEPTH) = MulQ((z * Micro) \div 50, 5 * Micro)
    /\ get_terrain_height(v.position[1], v.position[3]) = v.position[2]

\* C8: get_terrain_height is consistent with the mesh built at the reference
\* dimensions: for every vertex of create_landscape(50, 50), at grid cell
\* (x, z) with 0 <= x, z < 50, get_terrain_height(vertex.position.x,
\* vertex.position.z) passes the noise coordinates (x/50*5, z/50*5) of the
\* mesh builder to fractal_noise and returns exactly vertex.position.y.  Each
\* vertex is compared when the vertex pass has pushed it, and a call of
\* get_terrain_height at a vertex of the returned mesh returned its height.
HeightConsistent ==
    /\ (lpc = "vertices" /\ Len(landscape.vertices) > 0) =>
         AgreesAt(landscape.vertices[Len(landscape.vertices)],
                  CellX(Len(landscape.vertices), lwidth),
                  CellZ(Len(landscape.vertices), lwidth))
    /\ (lpc = "done" /\ query.asked) =>
         \A i \in 1..Len(landscape.vertices) :
            (/\ landscape.vertices[i].position[1] = query.x
             /\ landscape.vertices[i].position[3] = query.z)
            => query.height = landscape.vertices[i].position[2]

\* The vertex pass of create_landscape(50, 50) has pushed the vertex of grid
\* cell (1, 1), at world (-24, -24), where the terrain is higher than at the
\* first vertex, and get_terrain_height returns that height there.
HeightCompared ==
    /\ lpc = "vertices"
    /\ lwidth = 50
    /\ ldepth = 50
    /\ Len(landscape.vertices) = 52
    /\ landscape.vertices[52].position[1] = -24 * Micro
    /\ landscape.vertices[52].position[3] = -24 * Micro
    /\ landscape.vertices[52].position[2] # landscape.vertices[1].position[2]
    /\ get_terrain_height(-24 * Micro, -24 * Micro) = landscape.vertices[52].position[2]

(***************************************************************************)
(* Properties of the camera.  call holds the latest update_camera call, so *)
(* a state with call.cam # 0 is the state right after that call.           *)
(***************************************************************************)
InBox(p) == \A k \in 1..3 : minBounds[k] <= p[k] /\ p[k] <= maxBounds[k]

\* Coordinate k of the unclamped position v left the box, and p is on that face.
OnCrossedFace(v, p, k) ==
    /\ v[k] > maxBounds[k] => p[k] = maxBounds[k]
    /\ v[k] < minBounds[k] => p[k] = minBounds[k]

\* C2: after every update_camera call, for any prior position (also one
\* outside the box), any held keys, any dt >= 0 and any pointer coordinates,
\* the position satisfies -20 <= x <= 20, 0 <= y <= 20, -20 <= z <= 20, and a
\* coordinate whose unclamped value crossed a face of the box is exactly on
\* that face.
PositionInBox ==
    call.cam # 0 =>
        /\ InBox(cams[call.cam].position)
        /\ \A k \in 1..3 : OnCrossedFace(call.moved, cams[call.cam].position, k)

\* From x = 19.9, moving right with dt = 10 went past the face and ended with
\* x exactly 20.
StoppedAtFace ==
    /\ call.cam = 1
    /\ call.before.position = <<19900000, 0, 0>>
    /\ call.keys = {"D"}
    /\ call.dt = 10 * Micro
    /\ call.moved[1] > 20 * Micro
    /\ cams[1].position = <<20 * Micro, 0, 0>>

\* C7: after any sequence of update_camera calls the projectionMatrix,
\* moveSpeed and lookSpeed of a camera equal the values make_camera gave them.
FrameKept ==
    \A c \in created :
        /\ cams[c].projectionMatrix = made[c].projectionMatrix
        /\ cams[c].moveSpeed = made[c].moveSpeed
        /\ cams[c].lookSpeed = made[c].lookSpeed

\* Two calls moved and turned the camera and wrote its view matrix, and the
\* projection is that of the 800 x 600 viewport.
FrameKeptAfterMoves ==
    /\ hist.n = 2
    /\ call.cam = 1
    /\ call.dt > 0
    /\ cams[1].position # call.before.position
    /\ cams[1].yaw # 0
    /\ cams[1].pitch # 0
    /\ cams[1].viewMatrix # call.before.viewMatrix
    /\ cams[1].projectionMatrix = make_camera(800, 600).projectionMatrix
    /\ cams[1].projectionMatrix # make_camera(600, 600).projectionMatrix

\* C9: with yaw = pitch = 0 and no pointer movement the forward direction is
\* -Z, and a call with only 'W' held moves the position by exactly
\* (0, 0, -moveSpeed*dt) before clamping.
ForwardIsMinusZ ==
    (/\ call.cam # 0
     /\ call.keys = {"W"}
     /\ call.before.yaw = 0
     /\ call.before.pitch = 0
     /\ call.deltaX = 0
     /\ call.deltaY = 0)
    => /\ call.forward = <<0, 0, -Micro>>
       /\ call.moved = VAdd(call.before.position,
                            <<0, 0, -MulQ(call.before.moveSpeed, call.dt)>>)

\* A new camera at (0, 0, 3) with moveSpeed 8, 'W' held and dt = 1 ended at
\* (0, 0, -5).
MovedForward ==
    /\ call.cam = 1
    /\ hist.n = 1
    /\ call.keys = {"W"}
    /\ call.dt = Micro
    /\ call.before.position = <<0, 0, 3 * Micro>>
    /\ call.before.moveSpeed = 8 * Micro
    /\ cams[1].position = <<0, 0, -5 * Micro>>

\* The pitch the latest call computed before clamping it.
UnclampedPitch == TurnPitch(call.before.pitch, call.deltaY, call.before.lookSpeed)

\* C3: after every update_camera call, over any sequence of calls, the pitch
\* lies in [-1.5708, 1.5708]; when the call's pointer delta takes
\* pitch - deltaY*lookSpeed above 1.5708 (below -1.5708) the resulting pitch
\* is exactly 1.5708 (exactly -1.5708), and otherwise it is that value.
PitchClamped ==
    /\ \A c \in created : -PitchLimit <= cams[c].pitch /\ cams[c].pitch <= PitchLimit
    /\ call.cam # 0 =>
         /\ UnclampedPitch > PitchLimit => cams[call.cam].pitch = PitchLimit
         /\ UnclampedPitch < -PitchLimit => cams[call.cam].pitch = -PitchLimit
         /\ (-PitchLimit <= UnclampedPitch /\ UnclampedPitch <= PitchLimit)
              => cams[call.cam].pitch = UnclampedPitch

\* A camera driven up to 1.5708 by pointer Y = -10000 was driven down past the
\* lower limit by the next call and stopped at exactly -1.5708.
PitchDrivenBothWays ==
    /\ call.cam # 0
    /\ call.priorY = -10000
    /\ call.before.pitch = PitchLimit
    /\ UnclampedPitch < -PitchLimit
    /\ cams[call.cam].pitch = -PitchLimit

\* C4: in every state reachable by update_camera calls from a newly created
\* camera the pitch lies strictly inside (-pi/2, pi/2), so that cos(pitch) > 0
\* when the forward vector is computed.
PitchInsideQuarterTurn ==
    \A c \in created :
        /\ -HalfPiMicro < cams[c].pitch
        /\ cams[c].pitch < HalfPiMicro
        /\ cosf(cams[c].pitch) > 0

\* C5: on the very first update_camera call the stored last pointer position
\* is set to the call's pointer before the delta is computed, so that
\* deltaX = deltaY = 0 and yaw and pitch are left unchanged whatever the
\* pointer; on every later call the delta is the difference between the call's
\* pointer coordinates and those of the immediately preceding call.
PointerDeltas ==
    call.cam # 0 =>
        /\ call.wasFirst <=> hist.n = 1
        /\ hist.n = 1 =>
             /\ call.deltaX = 0
             /\ call.deltaY = 0
             /\ cams[call.cam].yaw = call.before.yaw
             /\ cams[call.cam].pitch = call.before.pitch
        /\ hist.n > 1 =>
             /\ call.deltaX = call.mouseX - call.priorX
             /\ call.deltaY = call.mouseY - call.priorY
        /\ lastMouseX = call.mouseX
        /\ lastMouseY = call.mouseY

\* The first call, with the pointer at (100, -10000), turned nothing; the
\* second, with the pointer at (-40, 200), saw the delta (-140, 10200).
DeltaFromPrecedingCall ==
    /\ hist.n = 2
    /\ hist.firstX = 100
    /\ hist.firstY = -10000
    /\ call.priorX = 100
    /\ call.priorY = -10000
    /\ call.mouseX = -40
    /\ call.mouseY = 200
    /\ call.deltaX = -140
    /\ call.deltaY = 10200

\* C6 as stated: the pointer-tracking state belongs to each camera and is
\* initialised when the camera is created, so the first update_camera call
\* applied to any newly created camera yields a zero pointer delta and leaves
\* yaw and pitch unchanged, whatever calls were made earlier on other cameras.
PointerStatePerCamera ==
    (call.cam # 0 /\ call.fresh) =>
        /\ call.deltaX = 0
        /\ call.deltaY = 0
        /\ cams[call.cam].yaw = call.before.yaw
        /\ cams[call.cam].pitch = call.before.pitch

\* C6 as the code has it: lastMouseX, lastMouseY and firstMouse are statics of
\* update_camera, shared by all cameras.  Only the very first call of the
\* program yields a zero delta; the first call applied to a camera after that
\* measures its delta from the pointer of the preceding call, on whichever
\* camera that was, and turns the new camera by it.
PointerStateShared ==
    (call.cam # 0 /\ call.fresh) =>
        /\ hist.n = 1 =>
             /\ call.deltaX = 0
             /\ call.deltaY = 0
             /\ cams[call.cam].yaw = call.before.yaw
             /\ cams[call.cam].pitch = call.before.pitch
        /\ hist.n > 1 =>
             /\ call.deltaX = call.mouseX - call.priorX
             /\ call.deltaY = call.mouseY - call.priorY
             /\ cams[call.cam].yaw =
                  call.before.yaw + (call.mouseX - call.priorX) * call.before.lookSpeed
             /\ cams[call.cam].pitch =
                  Clamp1(call.before.pitch
                           - (call.mouseY - call.priorY) * call.before.lookSpeed,
                         -PitchLimit, PitchLimit)

\* Camera 1 was updated with the pointer at (0, 0); the first update of
\* camera 2, with the pointer at (100, -10000), then turned it to yaw 0.5
\* and the pitch limit.
NewCameraTurned ==
    /\ hist.n = 2
    /\ hist.users = {1, 2}
    /\ call.cam = 2
    /\ call.fresh
    /\ call.before.yaw = 0
    /\ call.before.pitch = 0
    /\ call.priorX = 0
    /\ call.priorY = 0
    /\ call.deltaX = 100
    /\ call.deltaY = -10000
    /\ cams[2].yaw = 500000
    /\ cams[2].pitch = PitchLimit

\* C10: yaw accumulation is path-independent: after any sequence of n >= 1
\* update_camera calls on a camera with pointer X coordinates x_1..x_n (x_1
\* that of the very first call), its yaw equals the initial value plus
\* lookSpeed*(x_n - x_1), whatever the intermediate pointer positions, the keys
\* held and the dt values.
YawPathIndependent ==
    \A c \in created :
        (hist.n >= 1 /\ hist.users = {c}) =>
            cams[c].yaw = made[c].yaw + cams[c].lookSpeed * (call.mouseX - hist.firstX)

\* Three calls on one camera with pointer X 0, 100, -40: the yaw is
\* 0.005 * (-40 - 0), not that of the intermediate position.
YawAfterDetour ==
    /\ hist.n = 3
    /\ hist.users = {1}
    /\ hist.firstX = 0
    /\ call.priorX = 100
    /\ call.mouseX = -40
    /\ call.keys = {"W"}
    /\ cams[1].yaw = -200000

=============================================================================
